---- MODULE Spec2Model ----
(***************************************************************************)
(* A model of the response-normalization layer of liiga_api: the nested    *)
(* field extractor and the dict flattener of utils.py, the period          *)
(* aggregation of the game-stat endpoints (SkaterGameStats and             *)
(* GoalieGameStats of endpoints/games.py, GameStatsBase of endpoints.py),  *)
(* the parsers of GamesResults, GameInfo and of the player-info endpoints  *)
(* of endpoints/players.py, and the lazily cached Endpoint object of       *)
(* base.py that checks the options and runs the parsers.                   *)
(***************************************************************************)
EXTENDS Integers, Sequences, FiniteSets, TLC

(***************************************************************************)
(* JSON and Python values.  Every value is a record with a type tag t and  *)
(* a payload v, so that values of different Python types can be compared.  *)
(*   None           Python None / JSON null                                *)
(*   I(n)           an int                                                 *)
(*   B(b)           a bool                                                 *)
(*   S(chars)       a str, as the sequence of its characters               *)
(*   D(items)       a dict of the raw response, as the sequence of its     *)
(*                  <<key, value>> items in insertion order                *)
(*   L(elems)       a list of the raw response                             *)
(* The records a parser builds are TLA+ functions from column name to      *)
(* value, the lists it builds are TLA+ sequences.                          *)
(***************************************************************************)
None == [t |-> "none", v |-> 0]
I(n) == [t |-> "int", v |-> n]
B(b) == [t |-> "bool", v |-> b]
S(chars) == [t |-> "str", v |-> chars]
D(items) == [t |-> "dict", v |-> items]
L(elems) == [t |-> "list", v |-> elems]

\* The outcome of a call: the value it returns, or the exception it raises.
Ok(x) == [t |-> "ok", v |-> x]
Raise(e) == [t |-> "raise", v |-> e]
NoCall == [t |-> "nocall", v |-> 0]
\* A cached_property that holds no value.
NotCached == [t |-> "notcached", v |-> 0]

IsDict(x) == x.t = "dict"
IsInt(x) == x.t = "int"
IsStr(x) == x.t = "str"

\* k in d
HasKey(d, k) == \E i \in 1..Len(d.v) : d.v[i][1] = k
\* d[k]
Lookup(d, k) == d.v[CHOOSE i \in 1..Len(d.v) : d.v[i][1] = k][2]
\* d.get(k, default)
DictGet(d, k, default) == IF HasKey(d, k) THEN Lookup(d, k) ELSE default

\* a.update(b) on parser-built records; {} is the record with no column.
EmptyRecord == [k \in {} |-> None]
Update(a, b) ==
  [k \in DOMAIN a \cup DOMAIN b |-> IF k \in DOMAIN b THEN b[k] ELSE a[k]]
\* r.get(k, default) on a parser-built record.
RecGet(r, k, default) == IF k \in DOMAIN r THEN r[k] ELSE default

\* The concatenation of a sequence of sequences.
RECURSIVE Concat(_)
Concat(seqs) == IF seqs = <<>> THEN <<>> ELSE Head(seqs) \o Concat(Tail(seqs))

\* sorted in descending order.
RECURSIVE SortedIntsDescending(_)
SortedIntsDescending(ks) ==
  IF ks = {} THEN <<>>
  ELSE LET m == CHOOSE a \in ks : \A b \in ks : a.v >= b.v
       IN <<m>> \o SortedIntsDescending(ks \ {m})

\* sorted(ks) for a set of ints (as I(n) values).
RECURSIVE SortedInts(_)
SortedInts(ks) ==
  IF ks = {} THEN <<>>
  ELSE LET m == CHOOSE a \in ks : \A b \in ks : a.v <= b.v
       IN <<m>> \o SortedInts(ks \ {m})

(***************************************************************************)
(* utils.py: ResponseParser.  A dotted source path is written as the       *)
(* sequence of its segments, the value path.split(".") gives.              *)
(***************************************************************************)
\* The walk that also gives up at a value that is falsy.
RECURSIVE _get_nested_falsy(_, _)
_get_nested_falsy(current, path) ==
  IF path = <<>> THEN current
  ELSE IF ~IsDict(current) THEN None
  ELSE LET nxt == DictGet(current, Head(path), None)
       IN IF nxt \in {None, I(0), B(FALSE), S(<<>>), L(<<>>), D(<<>>)} THEN None
          ELSE _get_nested_falsy(nxt, Tail(path))

RECURSIVE _get_nested(_, _)
_get_nested(current, path) ==
  IF path = <<>> THEN current
  ELSE IF ~IsDict(current) THEN None
  ELSE LET nxt == DictGet(current, Head(path), None)
       IN IF nxt = None THEN None ELSE _get_nested(nxt, Tail(path))

\* The record of the columns whose source path is present only.
_parse_record_present(data, columns) ==
  [col \in {columns[i][2] : i \in {j \in 1..Len(columns) :
                                     _get_nested(data, columns[j][1]) # None}} |->
     LET i == CHOOSE i \in 1..Len(columns) : columns[i][2] = col
     IN _get_nested(data, columns[i][1])]

\* columns is the sequence of the spec's <<path, column>> items.
_parse_record(data, columns) ==
  [col \in {columns[i][2] : i \in 1..Len(columns)} |->
     LET i == CHOOSE i \in 1..Len(columns) :
                /\ columns[i][2] = col
                /\ \A j \in 1..Len(columns) : columns[j][2] = col => j <= i
     IN _get_nested(data, columns[i][1])]

(***************************************************************************)
(* endpoints/games.py: SkaterGameStats and GoalieGameStats.  Of the column *)
(* specs the model carries one column of each kind: the identifiers, the   *)
(* period number, a summed statistic nested under "period" (goals), a      *)
(* top-level statistic (distance), the team id and a team statistic, and   *)
(* three of the puck columns, distance among them.                         *)
(***************************************************************************)
_PERIOD_PLAYERSTAT_KEYS ==
  << << <<"jerseyId">>, "jerseyId" >>,
     << <<"playerId">>, "playerId" >>,
     << <<"period", "period">>, "period" >>,
     << <<"period", "goals">>, "goals" >>,
     << <<"distance">>, "distance" >> >>

_PERIOD_TEAM_CONTEXT ==
  << << <<"teamId">>, "teamId" >>,
     << <<"goals">>, "teamGoals" >> >>

_PERIOD_PUCK_KEYS ==
  << << <<"periodNumber">>, "periodNumber" >>,
     << <<"homeTeamControlDuration">>, "homeTeamControlDuration" >>,
     << <<"distance">>, "distance" >> >>

Sides == <<"homeTeam", "awayTeam">>

\* side.replace("Team", "").lower()
TeamSide(side) ==
  IF side = "homeTeam" THEN S(<<"h", "o", "m", "e">>) ELSE S(<<"a", "w", "a", "y">>)

\* The string as it is, a colon and what follows it included.
WholeString(chars) == chars

\* s.split(":")[0]: the characters before the first colon, all of s without one.
RECURSIVE SplitColonFirst(_)
SplitColonFirst(chars) ==
  IF chars = <<>> \/ Head(chars) = ":" THEN <<>>
  ELSE <<Head(chars)>> \o SplitColonFirst(Tail(chars))

\* The list a response holds under a key, [] when the key is missing.
ListOf(d, k) == DictGet(d, k, L(<<>>)).v

\* puck_stats: one record of puck columns per entry of response["puckStats"].
PuckStats(response) ==
  [i \in 1..Len(ListOf(response, "puckStats")) |->
     _parse_record(ListOf(response, "puckStats")[i], _PERIOD_PUCK_KEYS)]

\* team_stats of one period entry, the composite team id cut at the colon.
TeamStats(period) ==
  LET team_stats == _parse_record(period, _PERIOD_TEAM_CONTEXT)
  IN [team_stats EXCEPT !["teamId"] = S(SplitColonFirst(team_stats["teamId"].v))]

\* team_stats['teamId'].split(':') raises AttributeError unless the id is a str.
TeamIdSplits(period) == IsStr(_parse_record(period, _PERIOD_TEAM_CONTEXT)["teamId"])

\* The body of the loop over the player entries of one period entry: the
\* <<period_number, player_stats>> pairs appended to periods_out, in order.
PlayerRecords(period, stats_key, puck_period, side) ==
  [j \in 1..Len(ListOf(period, stats_key)) |->
     LET player_stats ==
           Update(Update(Update(_parse_record(ListOf(period, stats_key)[j],
                                              _PERIOD_PLAYERSTAT_KEYS),
                                TeamStats(period)),
                         puck_period),
                  [teamSide |-> TeamSide(side)])
     IN <<RecGet(player_stats, "period", None), player_stats>>]

\* [periods_out[p] for p in sorted(periods_out.keys()) if periods_out[p]]
\* appended are the <<period_number, record>> pairs in the order they were
\* appended, keys the keys of periods_out.  sorted raises TypeError when the
\* keys are not all ints, unless there is one key only (the period values of
\* the inputs are ints or None).
SortedBuckets(appended, keys) ==
  IF Cardinality(keys) > 1 /\ \E k \in keys : ~IsInt(k) THEN Raise("TypeError")
  ELSE LET order == IF Cardinality(keys) <= 1
                    THEN IF keys = {} THEN <<>> ELSE <<CHOOSE k \in keys : TRUE>>
                    ELSE SortedInts(keys)
           periods_out(p) ==
             LET mine == SelectSeq(appended, LAMBDA e : e[1] = p)
             IN [n \in 1..Len(mine) |-> mine[n][2]]
           kept == SelectSeq(order, LAMBDA p : periods_out(p) # <<>>)
       IN Ok([n \in 1..Len(kept) |-> periods_out(kept[n])])

\* SkaterGameStats: for i, period in enumerate(team_periods), entry i with
\* puck_stats[i] when there is one and with {} otherwise.
SkaterPuckPeriod(puck_stats, i) ==
  IF i <= Len(puck_stats) THEN puck_stats[i] ELSE EmptyRecord

Skater_parse_by_period(response) ==
  IF ~IsDict(response) THEN Raise("AttributeError")
  ELSE LET puck_stats == PuckStats(response)
           team_periods(side) == ListOf(response, side)
           appended(side) ==
             Concat([i \in 1..Len(team_periods(side)) |->
                       PlayerRecords(team_periods(side)[i], "periodPlayerStats",
                                     SkaterPuckPeriod(puck_stats, i), side)])
           all == appended("homeTeam") \o appended("awayTeam")
       IN IF \E s \in 1..2 : \E i \in 1..Len(team_periods(Sides[s])) :
               ~TeamIdSplits(team_periods(Sides[s])[i])
          THEN Raise("AttributeError")
          ELSE SortedBuckets(all, {all[n][1] : n \in 1..Len(all)})

\* GoalieGameStats: for period, puck_period in zip(team_periods, puck_stats),
\* which stops at the end of the shorter list.
GoalieZipLen(team_periods, puck_stats) ==
  IF Len(team_periods) <= Len(puck_stats) THEN Len(team_periods) ELSE Len(puck_stats)

Goalie_parse_by_period(response) ==
  IF ~IsDict(response) THEN Raise("AttributeError")
  ELSE LET puck_stats == PuckStats(response)
           team_periods(side) == ListOf(response, side)
           zipped(side) == GoalieZipLen(team_periods(side), puck_stats)
           appended(side) ==
             Concat([i \in 1..zipped(side) |->
                       PlayerRecords(team_periods(side)[i], "goaliePeriodStats",
                                     puck_stats[i], side)])
           all == appended("homeTeam") \o appended("awayTeam")
       IN IF \E s \in 1..2 : \E i \in 1..zipped(Sides[s]) :
               ~TeamIdSplits(team_periods(Sides[s])[i])
          THEN Raise("AttributeError")
          ELSE SortedBuckets(all, {all[n][1] : n \in 1..Len(all)})

(***************************************************************************)
(* _parse_sum_players, the same code in SkaterGameStats and in             *)
(* GoalieGameStats: the records of by_period merged by playerId.           *)
(***************************************************************************)
\* The skipped identifiers without jerseyId.
IdentityKeysWithoutJersey == {"playerId", "teamId"}

\* if k in ["playerId", "jerseyId", "teamId"]: continue
IdentityKeys == {"playerId", "jerseyId", "teamId"}

\* No record is skipped.
NeverFalsy(x) == FALSE

\* not player_id: None, 0 and "" are falsy.
Falsy(x) == x = None \/ x = I(0) \/ x = S(<<>>)

\* The merge of one later record of a player into total raises TypeError:
\* max() of a running period that is not an int, or + on a running value
\* that is not an int (total.get(k, 0) is 0 only when total has no key k).
MergeRaises(total, player) ==
  \E k \in DOMAIN player \ IdentityKeys :
     \/ k = "period" /\ ~IsInt(RecGet(total, k, I(0)))
     \/ k # "period" /\ IsInt(player[k]) /\ ~IsInt(RecGet(total, k, I(0)))

\* The value of column k of total after the merge.
MergedValue(total, player, k) ==
  IF k \notin DOMAIN player \/ k \in IdentityKeys THEN total[k]
  ELSE IF k = "period"
       THEN LET a == RecGet(total, k, I(0)).v
                b == IF IsInt(player[k]) THEN player[k].v ELSE 0
            IN I(IF a >= b THEN a ELSE b)
  ELSE IF IsInt(player[k]) THEN I(RecGet(total, k, I(0)).v + player[k].v)
  ELSE IF player[k] # None THEN player[k]
  ELSE RecGet(total, k, None)

\* total after the loop over player.items(); a column whose incoming value
\* is None and which total lacks stays missing.
MergeRecord(total, player) ==
  [k \in DOMAIN total \cup {c \in DOMAIN player \ IdentityKeys :
                                c = "period" \/ player[c] # None} |->
     MergedValue(total, player, k)]

\* The first record of a player copied and then merged into the copy as well.
FirstTotalMergedToo(player) == MergeRecord(player, player)

\* player_totals[player_id] = player.copy(), at the first record of a player.
FirstTotal(player) == player

\* The loop over the records of by_period from record n on; player_totals
\* maps the player ids seen so far to their running totals.
RECURSIVE SumLoop(_, _, _)
SumLoop(players, n, player_totals) ==
  IF n > Len(players) THEN Ok(player_totals)
  ELSE LET player == players[n]
           player_id == RecGet(player, "playerId", None)
       IN IF Falsy(player_id) THEN SumLoop(players, n + 1, player_totals)
          ELSE IF player_id \notin DOMAIN player_totals
               THEN SumLoop(players, n + 1,
                            [p \in DOMAIN player_totals \cup {player_id} |->
                               IF p = player_id THEN FirstTotal(player)
                               ELSE player_totals[p]])
          ELSE IF MergeRaises(player_totals[player_id], player) THEN Raise("TypeError")
          ELSE SumLoop(players, n + 1,
                       [player_totals EXCEPT ![player_id] = MergeRecord(@, player)])

\* [player_totals[pid] for pid in sorted(player_totals)]
SortedTotals(player_totals) ==
  LET order == SortedInts(DOMAIN player_totals)
  IN [n \in 1..Len(order) |-> player_totals[order[n]]]

_parse_sum_players(by_period) ==
  IF by_period.t = "raise" THEN by_period
  ELSE LET summed == SumLoop(Concat(by_period.v), 1, EmptyRecord)
       IN IF summed.t = "raise" THEN summed ELSE Ok(SortedTotals(summed.v))

Skater_parse_sum_players(response) == _parse_sum_players(Skater_parse_by_period(response))

Goalie_parse_sum_players(response) == _parse_sum_players(Goalie_parse_by_period(response))

(***************************************************************************)
(* utils.py: flatten_dict.  parent_key is the sequence of the strings the  *)
(* f-string has joined so far; out is keyed by k alone.                    *)
(***************************************************************************)
RECURSIVE flatten_dict(_, _, _)
RECURSIVE FlattenItems(_, _, _, _)
\* The loop over d.items() from item n on, out being what is written so far.
FlattenItems(items, n, parent_key, skip_keys) ==
  IF n > Len(items) THEN EmptyRecord
  ELSE LET k == items[n][1]
           v == items[n][2]
           written == IF k \in skip_keys THEN k :> v
                      ELSE IF IsDict(v)
                           THEN flatten_dict(v, parent_key \o <<k, "_">>, skip_keys)
                           ELSE k :> v
       IN Update(written, FlattenItems(items, n + 1, parent_key, skip_keys))

flatten_dict(d, parent_key, skip_keys) == FlattenItems(d.v, 1, parent_key, skip_keys)

(***************************************************************************)
(* endpoints.py: GameStatsBase, the base of GameSkaterStats and            *)
(* GameGoalieStats.                                                        *)
(***************************************************************************)
\* s.split(":")[1], given the characters after the first colon.
RECURSIVE AfterColon(_)
AfterColon(chars) ==
  IF chars = <<>> THEN <<>>
  ELSE IF Head(chars) = ":" THEN Tail(chars) ELSE AfterColon(Tail(chars))

HasColon(chars) == \E i \in 1..Len(chars) : chars[i] = ":"

\* team_context of one period entry (four of its columns).
TeamContext(period, side) ==
  [team_side |-> TeamSide(side),
   team_id |-> S(SplitColonFirst(DictGet(period, "teamId", None).v)),
   team_name |-> S(SplitColonFirst(AfterColon(DictGet(period, "teamId", None).v))),
   team_goals |-> DictGet(period, "goals", None)]

\* The exception building team_context raises, "" when it raises none.
TeamContextError(period) ==
  IF ~IsStr(DictGet(period, "teamId", None)) THEN "AttributeError"
  ELSE IF ~HasColon(DictGet(period, "teamId", None).v) THEN "IndexError"
  ELSE ""

\* Every bucket of periods_out, the empty ones too.
AllBuckets(appended, keys) ==
  LET got == SortedBuckets(appended, keys)
      order == SortedInts(keys)
  IN IF got.t = "raise" \/ \E k \in keys : ~IsInt(k) THEN got
     ELSE Ok([n \in 1..Len(order) |->
                LET mine == SelectSeq(appended, LAMBDA e : e[1] = order[n])
                IN [m \in 1..Len(mine) |-> mine[m][2]]])

\* The return of _parse_by_period: the buckets in ascending period order,
\* the empty ones left out.
NonEmptyBuckets(appended, keys) == SortedBuckets(appended, keys)

GameStatsBase_parse_by_period(response, PLAYER_STATS_KEY) ==
  IF ~IsDict(response) THEN Raise("LiigaAPIError")
  ELSE LET team_periods(side) == ListOf(response, side)
           period_number(period) == DictGet(period, "period", None)
           appended(side) ==
             Concat([i \in 1..Len(team_periods(side)) |->
                [j \in 1..Len(ListOf(team_periods(side)[i], PLAYER_STATS_KEY)) |->
                   <<period_number(team_periods(side)[i]),
                     Update(flatten_dict(ListOf(team_periods(side)[i], PLAYER_STATS_KEY)[j],
                                         <<>>, {}),
                            TeamContext(team_periods(side)[i], side))>>]])
           all == appended("homeTeam") \o appended("awayTeam")
           entries == team_periods("homeTeam") \o team_periods("awayTeam")
           failing == {i \in 1..Len(entries) : TeamContextError(entries[i]) # ""}
       IN IF failing # {}
          THEN Raise(TeamContextError(entries[CHOOSE i \in failing : \A j \in failing : i <= j]))
          ELSE NonEmptyBuckets(all, {period_number(entries[i]) : i \in 1..Len(entries)})

\* The value of column k of the running total after a later record is merged.
GameStatsBaseMerged(total, player, k) ==
  IF k \notin DOMAIN player \/ k \in IdentityKeys THEN total[k]
  ELSE IF k = "period"
       THEN LET a == RecGet(total, k, I(0)).v
                b == IF IsInt(player[k]) THEN player[k].v ELSE 0
            IN I(IF a >= b THEN a ELSE b)
  ELSE IF IsInt(player[k]) THEN I(RecGet(total, k, I(0)).v + player[k].v)
  ELSE player[k]

\* The loop over the records of by_period from record n on; order lists the
\* keys of player_totals in insertion order.
RECURSIVE GameStatsBaseSumLoop(_, _, _, _)
GameStatsBaseSumLoop(players, n, player_totals, order) ==
  IF n > Len(players) THEN Ok([m \in 1..Len(order) |-> player_totals[order[m]]])
  ELSE LET player == players[n]
           player_id == RecGet(player, "playerId", None)
       IN IF player_id = None
          THEN GameStatsBaseSumLoop(players, n + 1, player_totals, order)
          ELSE IF player_id \notin DOMAIN player_totals
               THEN GameStatsBaseSumLoop(players, n + 1,
                       [p \in DOMAIN player_totals \cup {player_id} |->
                          IF p = player_id THEN player ELSE player_totals[p]],
                       Append(order, player_id))
          ELSE IF MergeRaises(player_totals[player_id], player) THEN Raise("TypeError")
          ELSE GameStatsBaseSumLoop(players, n + 1,
                  [player_totals EXCEPT ![player_id] =
                     [k \in DOMAIN @ \cup (DOMAIN player \ IdentityKeys) |->
                        GameStatsBaseMerged(@, player, k)]],
                  order)

GameStatsBase_parse_sum_players(response, PLAYER_STATS_KEY) ==
  LET by_period == GameStatsBase_parse_by_period(response, PLAYER_STATS_KEY)
  IN IF by_period.t = "raise" THEN by_period
     ELSE GameStatsBaseSumLoop(Concat(by_period.v), 1, EmptyRecord, <<>>)

(***************************************************************************)
(* The raw responses of games/stats/{season}/{game_id} the model feeds to  *)
(* the game-stat endpoints.                                                *)
(***************************************************************************)
MaxPeriods == 2     \* period entries per team, and the highest period number
MaxPlayers == 1     \* player entries per period entry
MaxEntries == 2     \* player entries per response
MaxPlayerId == 2    \* player ids are 1..MaxPlayerId
MaxPuck == 2        \* entries of puckStats

\* The endpoint classes the model constructs; GameGoalieStats is GameSkaterStats
\* with the other PLAYER_STATS_KEY.
StatClasses == {"SkaterGameStats", "GoalieGameStats", "GameSkaterStats"}

\* The key of a period entry under which the endpoint class reads its players.
PLAYER_STATS_KEY(c) ==
  IF c \in {"SkaterGameStats", "GameSkaterStats"} THEN "periodPlayerStats"
  ELSE "goaliePeriodStats"

\* What a player entry may lack: pid -1 is an entry without the key playerId,
\* pid 0 one whose playerId is null, per 0 one without period.period, goals
\* "absent" one without period.goals and goals "null" one whose period.goals
\* is null.  An entry lacks at most one of them, and one that lacks something
\* is of player 1 and of period 1.
Lacks(pv) ==
  {f \in {"pid", "per", "goals"} : \/ f = "pid" /\ pv.pid < 1
                                   \/ f = "per" /\ pv.per = 0
                                   \/ f = "goals" /\ pv.goals # "int"}
PlayerVariants ==
  {pv \in [pid : -1..MaxPlayerId, per : 0..MaxPeriods,
           goals : {"int", "absent", "null"}] :
     \/ Lacks(pv) = {}
     \/ /\ Cardinality(Lacks(pv)) = 1
        /\ pv.pid <= 1
        /\ pv.per <= 1}

\* The items of a dict whose value is present.
Items(pairs) ==
  LET kept == SelectSeq(pairs, LAMBDA it : it[3])
  IN [n \in 1..Len(kept) |-> <<kept[n][1], kept[n][2]>>]

\* Player entry number g of a response: its jerseyId, goals and distance are
\* distinct from those of every other entry.
PlayerEntry(pv, g) ==
  D(Items(<< <<"playerId", IF pv.pid = 0 THEN None ELSE I(pv.pid), pv.pid >= 0>>,
             <<"jerseyId", I(10 + g), TRUE>>,
             <<"period", D(Items(<< <<"period", I(pv.per), pv.per > 0>>,
                                    <<"goals", IF pv.goals = "null" THEN None ELSE I(g),
                                      pv.goals # "absent">> >>)), TRUE>>,
             <<"distance", I(20 + g), TRUE>> >>))

\* Period entry number i of team number s (1 home, 2 away).
TeamId(s) == IF s = 1 THEN S(<<"1", ":", "A">>) ELSE S(<<"2", ":", "B">>)
PeriodEntry(s, i, stats_key, players) ==
  D(<< <<"period", I(i)>>, <<"teamId", TeamId(s)>>, <<"goals", I(50 + 10 * s + i)>>,
       <<stats_key, L(players)>> >>)

PuckEntry(i) ==
  D(<< <<"periodNumber", I(i)>>, <<"homeTeamControlDuration", I(30 + i)>>,
       <<"distance", I(40 + i)>> >>)

\* The numbers of player entries of a team's period entries.
TeamShapes == UNION {[1..n -> 0..MaxPlayers] : n \in 0..MaxPeriods}
RECURSIVE SumSeq(_)
SumSeq(q) == IF q = <<>> THEN 0 ELSE Head(q) + SumSeq(Tail(q))

\* The period entries of team s with shape sh, its player entries being
\* pvs[first + 1], pvs[first + 2], ...
TeamPeriods(s, sh, pvs, first, stats_key) ==
  [i \in 1..Len(sh) |->
     PeriodEntry(s, i, stats_key,
                 [j \in 1..sh[i] |->
                    LET g == first + SumSeq(SubSeq(sh, 1, i - 1)) + j
                    IN PlayerEntry(pvs[g], g)])]

\* puck 0 is a response without puckStats, puck n one with n entries.
StatResponse(home, away, pvs, puck, stats_key) ==
  D(<< <<"homeTeam", L(TeamPeriods(1, home, pvs, 0, stats_key))>>,
       <<"awayTeam", L(TeamPeriods(2, away, pvs, SumSeq(home), stats_key))>> >>
    \o IF puck = 0 THEN <<>>
       ELSE << <<"puckStats", L([i \in 1..puck |-> PuckEntry(i)])>> >>)

\* The shapes of the two teams of a response.
StatShapes ==
  {sh \in TeamShapes \X TeamShapes : SumSeq(sh[1]) + SumSeq(sh[2]) <= MaxEntries}

(***************************************************************************)
(* endpoints/games.py: GamesResults and GameInfo, with the game id and the *)
(* team columns of their column specs.                                     *)
(***************************************************************************)
GamesResults_COLUMNS ==
  << << <<"id">>, "gameId" >>,
     << <<"homeTeam", "teamId">>, "homeTeamId" >>,
     << <<"homeTeam", "teamName">>, "homeTeamName" >>,
     << <<"awayTeam", "teamId">>, "awayTeamId" >> >>

GameInfo_COLUMNS ==
  << << <<"game", "id">>, "gameId" >>,
     << <<"game", "homeTeam", "teamId">>, "homeTeamId" >>,
     << <<"game", "homeTeam", "teamName">>, "homeTeamName" >>,
     << <<"game", "awayTeam", "teamId">>, "awayTeamId" >> >>

GamesResults_GAMETYPE_OPTIONS ==
  [regularseason |-> "runkosarja", playoff |-> "playoffs",
   preseason |-> "valmistavat_ottelut", playout |-> "playout",
   qualification |-> "qualifications", chl |-> "chl"]

\* record['homeTeamId'] = record['homeTeamId'].split(':')[0], and the same
\* for awayTeamId; split raises AttributeError on a value that is no str.
SplitTeamIds(record) ==
  IF ~IsStr(record["homeTeamId"]) \/ ~IsStr(record["awayTeamId"])
  THEN Raise("AttributeError")
  ELSE Ok([record EXCEPT !["homeTeamId"] = S(SplitColonFirst(@.v)),
                         !["awayTeamId"] = S(SplitColonFirst(@.v))])

\* for game_data in self.response: the elements of a list; a dict gives its
\* keys, strings in which _get_nested finds nothing.
GamesResults_parse(resp) ==
  IF IsDict(resp) THEN IF resp.v = <<>> THEN Ok(<<>>) ELSE Raise("AttributeError")
  ELSE IF resp.t # "list" THEN Raise("TypeError")
  ELSE LET games == [n \in 1..Len(resp.v) |->
                       SplitTeamIds(_parse_record(resp.v[n], GamesResults_COLUMNS))]
       IN IF \E n \in 1..Len(games) : games[n].t = "raise" THEN Raise("AttributeError")
          ELSE Ok([n \in 1..Len(games) |-> games[n].v])

GameInfo_parse(resp) == SplitTeamIds(_parse_record(resp, GameInfo_COLUMNS))

(***************************************************************************)
(* endpoints/players.py: PlayerGameLog, PlayerTeamsPlayedFor and           *)
(* PlayerStatsPerSeason.  A str made by the parser out of a key or an      *)
(* argument is the S of that one piece.                                    *)
(***************************************************************************)
PlayerGameLog_GAMETYPE_OPTIONS ==
  [regularseason |-> "regular", playoff |-> "playoffs", preseason |-> "practice",
   playout |-> "playout", qualification |-> "qualifications", chl |-> "chl",
   all |-> ""]

PlayerStatsPerSeason_GAMETYPE_OPTIONS ==
  [regularseason |-> "regular", playoff |-> "playoffs", practice |-> "practice",
   playout |-> "playout", qualification |-> "qualifications", all |-> "all"]

\* A key the response does not have gives an empty list.
PlayerGameLog_parse_lenient(gtype, resp) ==
  IF ~IsDict(resp) THEN Raise("AttributeError")
  ELSE IF gtype # ""
       THEN Ok(DictGet(resp, gtype, L(<<>>)))
  ELSE Ok(Concat([n \in 1..Len(resp.v) |-> resp.v[n][2].v]))

\* PlayerGameLog._parse with self.gtype = gtype: the list under the key
\* gtype, or with gtype "" the lists under all the keys, one after another.
PlayerGameLog_parse(gtype, resp) ==
  IF ~IsDict(resp) THEN Raise("AttributeError")
  ELSE IF gtype # ""
       THEN IF ~HasKey(resp, gtype) THEN Raise("LiigaAPIError")
            ELSE Ok(Lookup(resp, gtype))
  ELSE IF \E n \in 1..Len(resp.v) : resp.v[n][2].t # "list" THEN Raise("TypeError")
  ELSE Ok(Concat([n \in 1..Len(resp.v) |-> resp.v[n][2].v]))

\* The columns of a team entry read with team_info[...] and one of those
\* read with team_info.get(...).
TeamsPlayedForRequired == {"season", "teamId", "teamName"}

PlayerTeamsPlayedFor_parse(resp) ==
  IF ~IsDict(resp) THEN Raise("AttributeError")
  ELSE LET teams_data == DictGet(resp, "teams", D(<<>>))
       IN IF ~IsDict(teams_data) THEN Raise("AttributeError")
          ELSE IF \E n \in 1..Len(teams_data.v) : ~IsDict(teams_data.v[n][2])
               THEN Raise("TypeError")
          ELSE IF \E n \in 1..Len(teams_data.v) : \E k \in TeamsPlayedForRequired :
                     ~HasKey(teams_data.v[n][2], k)
               THEN Raise("KeyError")
          ELSE Ok([n \in 1..Len(teams_data.v) |->
                     [k \in TeamsPlayedForRequired \cup {"jersey"} |->
                        DictGet(teams_data.v[n][2], k, None)]])

\* d with d[k] = v: {**d, k: v}, and d.copy() followed by d[k] = v.
DictSet(d, k, v) ==
  IF HasKey(d, k)
  THEN D([n \in 1..Len(d.v) |-> IF d.v[n][1] = k THEN <<k, v>> ELSE d.v[n]])
  ELSE D(Append(d.v, <<k, v>>))

\* The order of the gametype keys as strings.
GametypeRank(k) == IF k = "playoffs" THEN 1 ELSE IF k = "regular" THEN 2 ELSE 3

\* sorted(all_stats, key=lambda x: (x["season"], x["gametype"]), reverse=True)
\* of rows of int season: descending, rows of equal keys in their order.
RECURSIVE SortedSeasons(_)
SortedSeasons(rows) ==
  IF rows = <<>> THEN <<>>
  ELSE LET key(r) == <<Lookup(r, "season").v, GametypeRank(Lookup(r, "gametype").v[1])>>
           above(a, b) == a[1] > b[1] \/ (a[1] = b[1] /\ a[2] > b[2])
           first == CHOOSE i \in 1..Len(rows) :
                      /\ \A j \in 1..Len(rows) : ~above(key(rows[j]), key(rows[i]))
                      /\ \A j \in 1..(i - 1) : key(rows[j]) # key(rows[i])
       IN <<rows[first]>>
            \o SortedSeasons([n \in 1..(Len(rows) - 1) |->
                                IF n < first THEN rows[n] ELSE rows[n + 1]])

\* PlayerStatsPerSeason._parse with self.gametype = gametype.
PlayerStatsPerSeason_parse(gametype, resp) ==
  IF ~IsDict(resp) THEN Raise("AttributeError")
  ELSE LET historical == DictGet(resp, "historical", D(<<>>))
       IN IF ~IsDict(historical) THEN Raise("AttributeError")
          ELSE IF gametype = "all"
          THEN LET lists == SelectSeq(historical.v, LAMBDA it : it[2].t = "list")
                   all_stats ==
                     Concat([n \in 1..Len(lists) |->
                               [m \in 1..Len(lists[n][2].v) |->
                                  <<lists[n][1], lists[n][2].v[m]>>]])
               IN IF \E n \in 1..Len(all_stats) : ~IsDict(all_stats[n][2])
                  THEN Raise("AttributeError")
                  ELSE IF \E n \in 1..Len(all_stats) : ~HasKey(all_stats[n][2], "season")
                  THEN Raise("KeyError")
                  ELSE IF \E n \in 1..Len(all_stats) :
                            ~IsInt(Lookup(all_stats[n][2], "season"))
                            /\ Len(all_stats) > 1
                  THEN Raise("TypeError")
                  ELSE Ok(SortedSeasons([n \in 1..Len(all_stats) |->
                             DictSet(all_stats[n][2], "gametype", S(<<all_stats[n][1]>>))]))
          ELSE LET stats == DictGet(historical, gametype, L(<<>>))
               IN IF stats.t # "list" THEN Raise("TypeError")
                  ELSE IF \E n \in 1..Len(stats.v) : ~IsDict(stats.v[n])
                  THEN Raise("TypeError")
                  ELSE Ok([n \in 1..Len(stats.v) |->
                             DictSet(stats.v[n], "gametype", S(<<gametype>>))])

(***************************************************************************)
(* endpoints/games.py: the parsers that write into the response they are   *)
(* given, GamesSimpleResults, GameAwards and GamePlayers.  Each is modelled *)
(* by its result and by the response as the parse leaves it.               *)
(***************************************************************************)
\* d after d.pop(k).
DictPop(d, k) == D(SelectSeq(d.v, LAMBDA it : it[1] # k))

\* "iceRink" in item and isinstance(item["iceRink"], dict)
HasRink(item) == HasKey(item, "iceRink") /\ IsDict(Lookup(item, "iceRink"))

\* item after item["iceRink"]["rinkId"] = item["iceRink"].pop("id")
RenameRinkId(item) ==
  LET rink == Lookup(item, "iceRink")
  IN DictSet(item, "iceRink", DictSet(DictPop(rink, "id"), "rinkId", Lookup(rink, "id")))

\* The loop over the items of the response from item n on: pop raises
\* KeyError when the rink has no "id" (any more).
RECURSIVE GamesSimpleLoop(_, _, _)
GamesSimpleLoop(items, n, results) ==
  IF n > Len(items) THEN [result |-> Ok(results), items |-> items]
  ELSE IF ~IsDict(items[n]) THEN [result |-> Raise("TypeError"), items |-> items]
  ELSE IF HasRink(items[n]) /\ ~HasKey(Lookup(items[n], "iceRink"), "id")
       THEN [result |-> Raise("KeyError"), items |-> items]
  ELSE LET item == IF HasRink(items[n]) THEN RenameRinkId(items[n]) ELSE items[n]
       IN GamesSimpleLoop([items EXCEPT ![n] = item], n + 1,
                          Append(results, flatten_dict(item, <<>>, {})))

GamesSimpleResults_run(resp) ==
  IF resp.t # "list" THEN [result |-> Raise("LiigaAPIError"), response |-> resp]
  ELSE LET run == GamesSimpleLoop(resp.v, 1, <<>>)
       IN [result |-> run.result, response |-> L(run.items)]

\* for a in entries: a['teamId'] = a['teamId'].split(':')[0], from entry n
\* on; entries are the entries as the loop leaves them.
RECURSIVE SplitTeamIdsInPlace(_, _)
SplitTeamIdsInPlace(entries, n) ==
  IF n > Len(entries) THEN [result |-> Ok(entries), entries |-> entries]
  ELSE IF ~IsDict(entries[n]) THEN [result |-> Raise("TypeError"), entries |-> entries]
  ELSE IF ~HasKey(entries[n], "teamId")
       THEN [result |-> Raise("KeyError"), entries |-> entries]
  ELSE IF ~IsStr(Lookup(entries[n], "teamId"))
       THEN [result |-> Raise("AttributeError"), entries |-> entries]
  ELSE SplitTeamIdsInPlace(
         [entries EXCEPT ![n] = DictSet(@, "teamId",
                                        S(SplitColonFirst(Lookup(@, "teamId").v)))],
         n + 1)

GameAwards_run(resp) ==
  IF ~IsDict(resp) THEN [result |-> Raise("TypeError"), response |-> resp]
  ELSE IF ~HasKey(resp, "awards") THEN [result |-> Raise("KeyError"), response |-> resp]
  ELSE IF Lookup(resp, "awards").t # "list"
       THEN [result |-> Raise("TypeError"), response |-> resp]
  ELSE LET run == SplitTeamIdsInPlace(Lookup(resp, "awards").v, 1)
       IN [result |-> run.result, response |-> DictSet(resp, "awards", L(run.entries))]

GamePlayers_run(resp) ==
  IF ~IsDict(resp) THEN [result |-> Raise("TypeError"), response |-> resp]
  ELSE IF ~HasKey(resp, "homeTeamPlayers") \/ ~HasKey(resp, "awayTeamPlayers")
       THEN [result |-> Raise("KeyError"), response |-> resp]
  ELSE IF Lookup(resp, "homeTeamPlayers").t # "list"
       THEN [result |-> Raise("TypeError"), response |-> resp]
  ELSE LET home == SplitTeamIdsInPlace(Lookup(resp, "homeTeamPlayers").v, 1)
           home_done == DictSet(resp, "homeTeamPlayers", L(home.entries))
           away == SplitTeamIdsInPlace(Lookup(resp, "awayTeamPlayers").v, 1)
       IN IF home.result.t = "raise" THEN [result |-> home.result, response |-> home_done]
          ELSE IF Lookup(resp, "awayTeamPlayers").t # "list"
               THEN [result |-> Raise("TypeError"), response |-> home_done]
          ELSE [result |-> IF away.result.t = "raise" THEN away.result
                           ELSE Ok(home.entries \o away.entries),
                response |-> DictSet(home_done, "awayTeamPlayers", L(away.entries))]

(***************************************************************************)
(* endpoints/players.py: PlayersBasicStats; PlayersGoals, PlayersShots,    *)
(* PlayersPasses, PlayersPenalties, PlayersGameTime, PlayersSkating and    *)
(* PlayersAdvanced have the same __init__ check and the same _parse.       *)
(***************************************************************************)
PlayersBasicStats_GAMETYPE_OPTIONS ==
  [regularseason |-> "runkosarja", playoff |-> "playoffs",
   preseason |-> "valmistavat_ottelut", playout |-> "playout",
   qualification |-> "qualifications"]

\* Every value but None counts.
PreviousTeamsNotNull(previous_teams) == previous_teams # None

\* if previous_teams: a value that is not falsy.
HasPreviousTeams(previous_teams) ==
  previous_teams \notin {None, L(<<>>), D(<<>>), S(<<>>), I(0), B(FALSE)}

\* The loop over the entries of the response from entry n on, in the mode
\* that is not summed (the previous teams of the inputs are lists).
RECURSIVE PlayersLoop(_, _, _)
PlayersLoop(entries, n, players) ==
  IF n > Len(entries) THEN Ok(players)
  ELSE IF ~IsDict(entries[n]) THEN Raise("AttributeError")
  ELSE LET previous_teams == DictGet(entries[n], "previousTeamsForTournament", None)
       IN IF HasPreviousTeams(previous_teams)
          THEN IF previous_teams.t # "list" THEN Raise("TypeError")
               ELSE PlayersLoop(entries, n + 1, players \o previous_teams.v)
          ELSE PlayersLoop(entries, n + 1, Append(players, entries[n]))

\* PlayersBasicStats._parse with self.summed = sm.
PlayersBasicStats_parse(sm, resp) ==
  IF resp.t # "list" THEN Raise("TypeError")
  ELSE IF sm THEN Ok(resp.v)
  ELSE PlayersLoop(resp.v, 1, <<>>)

(***************************************************************************)
(* base.py: the Endpoint object.  cls is the class and args are the        *)
(* arguments of the call of its constructor, constructed tells whether     *)
(* __init__ has returned, summed is the attribute __init__ sets, raw is    *)
(* what the server answers, response and data are the two cached_property  *)
(* slots, outcome is the outcome of the latest call.                       *)
(***************************************************************************)
VARIABLES cls, args, constructed, summed, raw, response, data, outcome, call, log
vars == <<cls, args, constructed, summed, raw, response, data, outcome, call, log>>

Cached(x) == [t |-> "cached", v |-> x]

\* self._parse_by_period() and self._parse_sum_players() of class c.
_parse_by_period(c, resp) ==
  IF c = "SkaterGameStats" THEN Skater_parse_by_period(resp)
  ELSE IF c = "GoalieGameStats" THEN Goalie_parse_by_period(resp)
  ELSE GameStatsBase_parse_by_period(resp, PLAYER_STATS_KEY(c))

_parse_sum(c, resp) ==
  IF c = "SkaterGameStats" THEN Skater_parse_sum_players(resp)
  ELSE IF c = "GoalieGameStats" THEN Goalie_parse_sum_players(resp)
  ELSE GameStatsBase_parse_sum_players(resp, PLAYER_STATS_KEY(c))

\* self._parse() of the game-stat classes.
_parse(c, sm, resp) == IF sm THEN _parse_sum(c, resp) ELSE _parse_by_period(c, resp)

\* self._parse() of an object of class c constructed with the arguments a.
Endpoint_parse(c, a, sm, resp) ==
  IF c \in StatClasses THEN _parse(c, sm, resp)
  ELSE IF c = "GamesResults" THEN GamesResults_parse(resp)
  ELSE IF c = "GameInfo" THEN GameInfo_parse(resp)
  ELSE IF c = "PlayerGameLog"
       THEN PlayerGameLog_parse(PlayerGameLog_GAMETYPE_OPTIONS[a.gametype], resp)
  ELSE IF c = "PlayerTeamsPlayedFor" THEN PlayerTeamsPlayedFor_parse(resp)
  ELSE IF c = "PlayersBasicStats" THEN PlayersBasicStats_parse(sm, resp)
  ELSE IF c = "GamesSimpleResults" THEN GamesSimpleResults_run(resp).result
  ELSE IF c = "GameAwards" THEN GameAwards_run(resp).result
  ELSE IF c = "GamePlayers" THEN GamePlayers_run(resp).result
  ELSE PlayerStatsPerSeason_parse(a.gametype, resp)

\* The response object after self._parse() has run on it.
ResponseAfterParse(c, resp) ==
  IF c = "GamesSimpleResults" THEN GamesSimpleResults_run(resp).response
  ELSE IF c = "GameAwards" THEN GameAwards_run(resp).response
  ELSE IF c = "GamePlayers" THEN GamePlayers_run(resp).response
  ELSE resp

InitStats ==
  /\ cls \in StatClasses
  /\ summed \in BOOLEAN
  /\ args = [gametype |-> "", summed |-> B(summed)]
  /\ constructed = TRUE
  /\ \E sh \in StatShapes :
       \E pvs \in [1..(SumSeq(sh[1]) + SumSeq(sh[2])) -> PlayerVariants] :
         \E puck \in 0..MaxPuck :
           raw = StatResponse(sh[1], sh[2], pvs, puck, PLAYER_STATS_KEY(cls))
  /\ response = NotCached
  /\ data = NotCached
  /\ outcome = NoCall
  /\ call = "none"
  /\ log = <<>>

MaxLog == 3         \* requests and parses logged before the calls stop

\* What the server answers when the request fails (no connection, a status
\* that is not 2xx, a body that is not JSON).
Failure == [t |-> "failure", v |-> 0]

\* The answer r is kept whatever it is.
FetchedKeepsFailure(r) == Cached(r)

\* The response slot after the property function ran on the answer r:
\* cached_property stores what the function returns and nothing when it
\* raises.
Fetched(r) == IF r = Failure THEN NotCached ELSE Cached(r)

\* self.response: the cached value, or a request; events are the requests
\* made, "fetch" one that was answered and "fetch_failed" one that was not.
AccessResponse ==
  IF response # NotCached
  THEN [response |-> response, result |-> Ok(response.v), events |-> <<>>]
  ELSE IF raw = Failure
       THEN [response |-> Fetched(raw), result |-> Raise("LiigaAPIError"),
             events |-> <<"fetch_failed">>]
  ELSE [response |-> Fetched(raw), result |-> Ok(raw), events |-> <<"fetch">>]

\* Nothing is stored.
NeverStore(parsed) == NotCached

\* The data slot after self._parse() ended in parsed.
StoreResult(parsed) == IF parsed.t = "ok" THEN Cached(parsed.v) ELSE NotCached

\* self._parse() on the response object resp with the slots it leaves:
\* the response object as the parse wrote into it, the data when it
\* returned.
AfterParse(parsed, written, events) ==
  [response |-> Cached(written),
   data |-> StoreResult(parsed),
   result |-> parsed,
   events |-> Append(events, IF parsed.t = "ok" THEN "parse" ELSE "parse_failed")]

RunParse(resp, events) ==
  AfterParse(Endpoint_parse(cls, args, summed, resp), ResponseAfterParse(cls, resp), events)

\* self.data: the cached value, or self._parse() on self.response.
AccessData ==
  IF data # NotCached
  THEN [response |-> response, data |-> data, result |-> Ok(data.v), events |-> <<>>]
  ELSE LET fetched == AccessResponse
       IN IF fetched.result.t = "raise"
          THEN [response |-> fetched.response, data |-> NotCached,
                result |-> fetched.result, events |-> fetched.events]
          ELSE RunParse(fetched.result.v, fetched.events)

\* get_dict(): self.data.
GetDict ==
  /\ constructed
  /\ Len(log) < MaxLog
  /\ \E access \in {AccessData} :
        /\ response' = access.response
        /\ data' = access.data
        /\ outcome' = access.result
        /\ call' = "get_dict"
        /\ log' = log \o access.events
        /\ UNCHANGED <<cls, args, constructed, summed, raw>>

NextStats == GetDict

SpecStats == InitStats /\ [][NextStats]_vars

(***************************************************************************)
(* utils.py called on its own: cls names the function, raw is its first    *)
(* argument and args holds the others.                                     *)
(***************************************************************************)
MaxItems == 2       \* items per dict of an argument

\* The dicts of at most MaxItems items with keys of keys, each key once,
\* and values of values, in every insertion order.
DictsOf(keys, values) ==
  UNION {{D(items) : items \in {q \in [1..n -> keys \X values] :
                                   \A i, j \in 1..n : i # j => q[i][1] # q[j][1]}} :
         n \in 0..MaxItems}

\* The records given to _get_nested and _parse_record: "a" may be missing,
\* a scalar, a list or a dict, in which "b" may be missing, a scalar, a list
\* or a dict.
NestedLeaves == {None, I(0), I(1), B(FALSE), S(<<>>), L(<<>>)}
NestedRecords ==
  LET inner == DictsOf({"b", "c"}, NestedLeaves \cup {D(<< <<"c", I(1)>> >>)})
      a_items == {<<>>} \cup {<< <<"a", v>> >> : v \in NestedLeaves \cup inner}
      c_items == {<<>>} \cup {<< <<"c", v>> >> : v \in NestedLeaves}
  IN {D(x \o y) : x \in a_items, y \in c_items} \cup {D(y \o x) : x \in a_items, y \in c_items}

NestedPaths == {<<"a", "b">>, <<"a">>, <<"c">>, <<"a", "b", "c">>, <<"a", "c">>}

ColumnSpecs ==
  { <<>>,
    << << <<"a", "b">>, "x" >> >>,
    << << <<"a", "b">>, "x" >>, << <<"c">>, "y" >> >>,
    << << <<"a", "b", "c">>, "x" >>, << <<"a", "c">>, "y" >>, << <<"c">>, "c" >> >> }

\* The dicts given to flatten_dict: up to three levels, a list among the
\* leaves, the same keys at every level.
FlattenLeaves == {I(1), I(2), L(<< D(<< <<"a", I(3)>> >>) >>)}
FlattenDicts ==
  LET level1 == DictsOf({"a", "b"}, FlattenLeaves)
      level2 == DictsOf({"a", "b"}, FlattenLeaves \cup level1)
  IN level2 \cup {D(<< <<k, d>> >>) : k \in {"a", "b"}, d \in level2}

SkipKeySets == {{}, {"a"}, {"b"}}

InitUtils ==
  /\ \/ /\ cls \in {"_get_nested"}
        /\ raw \in NestedRecords
        /\ \E p \in NestedPaths : args = [path |-> p]
     \/ /\ cls \in {"_parse_record"}
        /\ raw \in NestedRecords
        /\ \E c \in ColumnSpecs : args = [columns |-> c]
     \/ /\ cls \in {"flatten_dict"}
        /\ raw \in FlattenDicts
        /\ \E sk \in SkipKeySets : args = [skip_keys |-> sk]
  /\ constructed = FALSE
  /\ summed = FALSE
  /\ response = NotCached
  /\ data = NotCached
  /\ outcome = NoCall
  /\ call = "none"
  /\ log = <<>>

\* ResponseParser._get_nested(raw, path)
GetNested ==
  /\ cls = "_get_nested"
  /\ outcome' = Ok(_get_nested(raw, args.path))
  /\ call' = cls
  /\ UNCHANGED <<cls, args, constructed, summed, raw, response, data, log>>

\* ResponseParser._parse_record(raw, columns)
ParseRecord ==
  /\ cls = "_parse_record"
  /\ outcome' = Ok(_parse_record(raw, args.columns))
  /\ call' = cls
  /\ UNCHANGED <<cls, args, constructed, summed, raw, response, data, log>>

\* flatten_dict(raw, skip_keys=skip_keys)
FlattenDict ==
  /\ cls = "flatten_dict"
  /\ outcome' = Ok(flatten_dict(raw, <<>>, args.skip_keys))
  /\ call' = cls
  /\ UNCHANGED <<cls, args, constructed, summed, raw, response, data, log>>

NextUtils == GetNested \/ ParseRecord \/ FlattenDict

SpecUtils == InitUtils /\ [][NextUtils]_vars

(***************************************************************************)
(* The endpoint classes from the call of the constructor on: __init__      *)
(* checks the options, get_dict() fetches and parses.  The responses are   *)
(* well-formed ones and ones of an unexpected shape: a list for a dict, a  *)
(* top-level key or a team id missing.                                     *)
(***************************************************************************)
MaxGames == 2       \* games of a GamesResults response

EndpointClasses ==
  StatClasses \cup {"GamesResults", "GameInfo", "PlayerGameLog",
                    "PlayerTeamsPlayedFor", "PlayerStatsPerSeason", "PlayersBasicStats"}

\* The values passed for gametype and for summed.
GametypeArgs == {"regularseason", "playoff", "all", "regular", "bogus"}
SummedArgs == {B(TRUE), B(FALSE), I(1), None}
ArgsOf(c) ==
  IF c \in StatClasses THEN {[gametype |-> "", summed |-> x] : x \in SummedArgs}
  ELSE IF c \in {"GamesResults", "PlayerGameLog", "PlayerStatsPerSeason"}
       THEN {[gametype |-> g, summed |-> None] : g \in GametypeArgs}
  ELSE IF c = "PlayersBasicStats"
       THEN {[gametype |-> g, summed |-> x] : g \in GametypeArgs, x \in SummedArgs}
  ELSE {[gametype |-> "", summed |-> None]}

\* d without the keys ks.
WithoutKeys(d, ks) == D(SelectSeq(d.v, LAMBDA it : it[1] \notin ks))

\* games/stats responses whose player entries are complete, the same ones
\* with homeTeam, awayTeam or both missing, and two lists.
WholeStatResponses(stats_key) ==
  {StatResponse(sh[1], sh[2],
                [g \in 1..(SumSeq(sh[1]) + SumSeq(sh[2])) |->
                   [pid |-> IF g > MaxPlayerId THEN MaxPlayerId ELSE g,
                    per |-> 1, goals |-> "int"]],
                puck, stats_key) : sh \in StatShapes, puck \in 0..MaxPuck}
StatEndpointResponses(stats_key) ==
  WholeStatResponses(stats_key)
    \cup {WithoutKeys(r, ks) : r \in WholeStatResponses(stats_key),
                               ks \in {{"homeTeam"}, {"awayTeam"}, {"homeTeam", "awayTeam"}}}
    \cup {L(<<>>), L(<<D(<<>>)>>)}

\* The team ids of a game: composite, plain, with two colons, and missing.
TeamIdForms ==
  {S(<<"1", ":", "A">>), S(<<"2">>), S(<<"3", ":", "C", ":", "D">>), None}
GameTeam(id) ==
  D(Items(<< <<"teamId", id, id # None>>, <<"teamName", S(<<"T">>), TRUE>> >>))
GameEntries ==
  {D(<< <<"id", I(7)>>, <<"homeTeam", GameTeam(h)>>, <<"awayTeam", GameTeam(a)>> >>) :
     h \in TeamIdForms, a \in TeamIdForms}
GamesResponses == {L(q) : q \in UNION {[1..n -> GameEntries] : n \in 0..MaxGames}}
GameInfoResponses == {D(<< <<"game", g>> >>) : g \in GameEntries} \cup {D(<<>>), L(<<>>)}

\* players/info/{id}/games/{season}: lists of games under the gametype keys.
GameLogEntry(n) == D(<< <<"gameId", I(n)>> >>)
GameLogResponses ==
  DictsOf({"regular", "playoffs"},
          {L(<<>>), L(<<GameLogEntry(1)>>), L(<<GameLogEntry(2), GameLogEntry(1)>>)})

\* players/info/{id}: historical, lists of seasons under the gametype keys,
\* and teams, team entries under the season keys.
SeasonEntry(y) == D(<< <<"season", I(y)>>, <<"games", I(10 + y)>> >>)
SeasonLists ==
  {L(<<>>), L(<<SeasonEntry(1)>>), L(<<SeasonEntry(1), SeasonEntry(2)>>),
   L(<<SeasonEntry(2), SeasonEntry(1)>>), None}
TeamInfos ==
  {D(Items(<< <<"season", I(1), TRUE>>, <<"teamId", S(<<"1">>), TRUE>>,
              <<"teamName", S(<<"T">>), name>>, <<"jersey", I(9), jersey>> >>)) :
     name \in BOOLEAN, jersey \in BOOLEAN}
PlayerInfoResponses ==
  {D(<< <<"historical", h>> >>) : h \in DictsOf({"regular", "playoffs"}, SeasonLists)}
    \cup {D(<< <<"teams", t>> >>) : t \in DictsOf({"2023", "2024"}, TeamInfos)}
    \cup {D(<<>>)}

\* players/stats/summed/...: player entries whose previousTeamsForTournament
\* is missing, null, an empty list, or a list of one or two team entries.
PreviousTeamEntry(n, team) == D(<< <<"playerId", I(n)>>, <<"teamId", S(<<team>>)>> >>)
PreviousTeamsForms(n) ==
  {<<>>} \cup {<< <<"previousTeamsForTournament", pt>> >> :
                 pt \in {None, L(<<>>), L(<<PreviousTeamEntry(n, "1")>>),
                         L(<<PreviousTeamEntry(n, "1"), PreviousTeamEntry(n, "2")>>)}}
PlayersResponses ==
  {L(q) : q \in UNION {{[i \in 1..n |-> D(<< <<"playerId", I(i)>> >> \o forms[i])] :
                          forms \in [1..n -> PreviousTeamsForms(1) \cup PreviousTeamsForms(2)]} :
                       n \in 0..MaxGames}}

ResponsesOf(c) ==
  IF c \in StatClasses THEN StatEndpointResponses(PLAYER_STATS_KEY(c))
  ELSE IF c = "PlayersBasicStats" THEN PlayersResponses
  ELSE IF c = "GamesResults" THEN GamesResponses
  ELSE IF c = "GameInfo" THEN GameInfoResponses
  ELSE IF c = "PlayerGameLog" THEN GameLogResponses
  ELSE PlayerInfoResponses

\* The check at the head of __init__ raises ValueError.
InitRaises(c, a) ==
  IF c \in StatClasses THEN a.summed.t # "bool"
  ELSE IF c = "GamesResults" THEN a.gametype \notin DOMAIN GamesResults_GAMETYPE_OPTIONS
  ELSE IF c = "PlayerGameLog" THEN a.gametype \notin DOMAIN PlayerGameLog_GAMETYPE_OPTIONS
  ELSE IF c = "PlayersBasicStats"
       THEN a.gametype \notin DOMAIN PlayersBasicStats_GAMETYPE_OPTIONS
  ELSE FALSE

InitEndpoints ==
  /\ cls \in EndpointClasses
  /\ args \in ArgsOf(cls)
  /\ raw \in ResponsesOf(cls)
  /\ constructed = FALSE
  /\ summed = FALSE
  /\ response = NotCached
  /\ data = NotCached
  /\ outcome = NoCall
  /\ call = "none"
  /\ log = <<>>

\* cls(..., gametype=..., summed=...): __init__ raises ValueError or sets
\* the attributes and returns.
Construct ==
  /\ ~constructed
  /\ outcome = NoCall
  /\ IF InitRaises(cls, args)
     THEN /\ outcome' = Raise("ValueError")
          /\ UNCHANGED <<constructed, summed>>
     ELSE /\ constructed' = TRUE
          /\ summed' = IF cls \in StatClasses THEN args.summed.v
                       ELSE IF cls = "PlayersBasicStats"
                            THEN args.summed \notin {None, B(FALSE), I(0)}
                       ELSE FALSE
          /\ UNCHANGED outcome
  /\ call' = "__init__"
  /\ UNCHANGED <<cls, args, raw, response, data, log>>

NextEndpoints == Construct \/ GetDict

SpecEndpoints == InitEndpoints /\ [][NextEndpoints]_vars

(***************************************************************************)
(* The methods of base.py on one constructed object: get_dict, get_json,   *)
(* get_data_frame, get_response and clear_cache in any order, and data     *)
(* dropped (del obj.data) and computed again on the cached response.  The  *)
(* classes are the three whose parse writes into the response and GameInfo,*)
(* whose parse does not; the server answers or fails, and a failing server *)
(* may recover.                                                            *)
(***************************************************************************)
MaxItemsCached == 2     \* entries of a list of a response

CacheClasses == {"GamesSimpleResults", "GameAwards", "GamePlayers", "GameInfo"}

\* The sequences of at most MaxItemsCached members of a set.
SeqsOf(members) == UNION {[1..n -> members] : n \in 0..MaxItemsCached}

\* schedule items: with an ice rink that has an id, with one that has none,
\* with a null ice rink and without one.
ScheduleItems ==
  {D(<< <<"id", I(7)>>, <<"iceRink", D(<< <<"id", I(5)>>, <<"name", S(<<"R">>)>> >>)>> >>),
   D(<< <<"id", I(8)>>, <<"iceRink", D(<< <<"name", S(<<"R">>)>> >>)>> >>),
   D(<< <<"id", I(9)>>, <<"iceRink", None>> >>),
   D(<< <<"id", I(6)>> >>)}

\* awards and players: entries with a composite, a plain and a null team id.
TeamIdEntries ==
  {D(<< <<"teamId", id>>, <<"name", S(<<"N">>)>> >>) :
     id \in {S(<<"1", ":", "A">>), S(<<"2">>), None}}

CacheResponses(c) ==
  IF c = "GamesSimpleResults" THEN {L(q) : q \in SeqsOf(ScheduleItems)} \cup {D(<<>>)}
  ELSE IF c = "GameAwards"
       THEN {D(<< <<"awards", L(q)>> >>) : q \in SeqsOf(TeamIdEntries)} \cup {D(<<>>)}
  ELSE IF c = "GamePlayers"
       THEN {D(<< <<"homeTeamPlayers", L(h)>>, <<"awayTeamPlayers", L(a)>> >>) :
               h \in {q \in SeqsOf(TeamIdEntries) : Len(q) <= 1},
               a \in {q \in SeqsOf(TeamIdEntries) : Len(q) <= 1}}
  ELSE GameInfoResponses

InitCache ==
  /\ cls \in CacheClasses
  /\ args = [gametype |-> "", summed |-> None]
  /\ constructed = TRUE
  /\ summed = FALSE
  /\ raw \in CacheResponses(cls) \cup {Failure}
  /\ response = NotCached
  /\ data = NotCached
  /\ outcome = NoCall
  /\ call = "none"
  /\ log = <<>>

\* json.dumps(d, indent=2): a string made of d.
Json(d) == [t |-> "json", v |-> d]

\* pd.DataFrame(rows)
Frame(rows) == [t |-> "frame", v |-> rows]

\* What get_data_frame makes of the data d of class c: a list of frames of
\* a non-empty list of lists (the by-period stats), one frame of a list of
\* records, a frame of one row of a record (GameInfo).
DataFrameOf(c, sm, d) ==
  IF c \in StatClasses /\ ~sm /\ d # <<>> THEN [i \in DOMAIN d |-> Frame(d[i])]
  ELSE IF c = "GameInfo" THEN Frame(<<d>>)
  ELSE Frame(d)

\* get_json(): json.dumps(self.data, indent=2)
GetJson ==
  /\ constructed
  /\ Len(log) < MaxLog
  /\ \E access \in {AccessData} :
        /\ response' = access.response
        /\ data' = access.data
        /\ outcome' = IF access.result.t = "ok" THEN Ok(Json(access.result.v))
                      ELSE access.result
        /\ call' = "get_json"
        /\ log' = log \o access.events
        /\ UNCHANGED <<cls, args, constructed, summed, raw>>

\* get_data_frame()
GetDataFrame ==
  /\ constructed
  /\ Len(log) < MaxLog
  /\ \E access \in {AccessData} :
        /\ response' = access.response
        /\ data' = access.data
        /\ outcome' = IF access.result.t = "ok"
                      THEN Ok(DataFrameOf(cls, summed, access.result.v))
                      ELSE access.result
        /\ call' = "get_data_frame"
        /\ log' = log \o access.events
        /\ UNCHANGED <<cls, args, constructed, summed, raw>>

\* get_response(): self.response
GetResponse ==
  /\ constructed
  /\ Len(log) < MaxLog
  /\ \E access \in {AccessResponse} :
        /\ response' = access.response
        /\ outcome' = access.result
        /\ call' = "get_response"
        /\ log' = log \o access.events
        /\ UNCHANGED <<cls, args, constructed, summed, raw, data>>

\* clear_cache(): del self.response; del self.data; return None.  del of a
\* cached_property that holds nothing raises AttributeError.  The log starts
\* again when something was deleted.
ClearCache ==
  /\ constructed
  /\ IF response = NotCached
     THEN /\ outcome' = Raise("AttributeError")
          /\ UNCHANGED <<response, data, log>>
     ELSE IF data = NotCached
          THEN /\ response' = NotCached
               /\ outcome' = Raise("AttributeError")
               /\ log' = <<>>
               /\ UNCHANGED data
          ELSE /\ response' = NotCached
               /\ data' = NotCached
               /\ outcome' = Ok(None)
               /\ log' = <<>>
  /\ call' = "clear_cache"
  /\ UNCHANGED <<cls, args, constructed, summed, raw>>

\* del obj.data; obj.data: the data is dropped and self._parse() runs again
\* on the response that stayed cached.  The log keeps the requests only.
Recompute ==
  /\ constructed
  /\ response # NotCached
  /\ data # NotCached
  /\ \E run \in {RunParse(response.v,
                          SelectSeq(log, LAMBDA e : e \in {"fetch", "fetch_failed"}))} :
        /\ response' = run.response
        /\ data' = run.data
        /\ outcome' = run.result
        /\ call' = "recompute"
        /\ log' = run.events
        /\ UNCHANGED <<cls, args, constructed, summed, raw>>

\* The server that failed answers from now on.
ServerRecovers ==
  /\ raw = Failure
  /\ raw' \in CacheResponses(cls)
  /\ UNCHANGED <<cls, args, constructed, summed, response, data, outcome, call, log>>

NextCache ==
  GetDict \/ GetJson \/ GetDataFrame \/ GetResponse \/ ClearCache \/ Recompute
    \/ ServerRecovers

SpecCache == InitCache /\ [][NextCache]_vars

(***************************************************************************)
(* The claims.  They are stated on the state after get_dict(): raw is the  *)
(* response that was parsed, outcome what the call returned or raised.     *)
(***************************************************************************)
Acted == outcome # NoCall
\* get_dict() has been called on the constructed object.
Parsed == constructed /\ outcome # NoCall
Returned == outcome.t = "ok"
IsGamesClass == cls \in {"SkaterGameStats", "GoalieGameStats"}

\* The period entries of team s of the raw response and the player entries
\* of its period entry i, read off the response itself.
RawTeam(s) == Lookup(raw, Sides[s]).v
RawPlayers(s, i) == Lookup(RawTeam(s)[i], PLAYER_STATS_KEY(cls)).v
RawPositions ==
  {pos \in (1..2) \X (1..MaxPeriods) \X (1..MaxPlayers) :
     /\ pos[2] <= Len(RawTeam(pos[1]))
     /\ pos[3] <= Len(RawPlayers(pos[1], pos[2]))}
RawEntry(pos) == RawPlayers(pos[1], pos[2])[pos[3]]
RawField(e, k) == IF HasKey(e, k) THEN Lookup(e, k) ELSE None
RawPeriodOf(e) == RawField(Lookup(e, "period"), "period")
RawPuckLen == IF HasKey(raw, "puckStats") THEN Len(Lookup(raw, "puckStats").v) ELSE 0

\* The by-period output of the endpoint for the raw response; recs below are
\* its records in bucket order, Concat(ByPeriod.v).
ByPeriod == _parse_by_period(cls, raw)
IdOf(r) == RecGet(r, "playerId", None)
RecordsOf(recs, pid) == SelectSeq(recs, LAMBDA r : IdOf(r) = pid)
ResolvedIds(recs) == {IdOf(recs[n]) : n \in 1..Len(recs)} \ {None}
Range(q) == {q[n] : n \in 1..Len(q)}
OutRecord(pid) == CHOOSE r \in Range(outcome.v) : IdOf(r) = pid

IntOr0(x) == IF IsInt(x) THEN x.v ELSE 0
RECURSIVE SumCol(_, _)
SumCol(recs, k) ==
  IF recs = <<>> THEN 0 ELSE IntOr0(RecGet(Head(recs), k, None)) + SumCol(Tail(recs), k)
RECURSIVE MaxCol(_, _)
MaxCol(recs, k) ==
  IF recs = <<>> THEN 0
  ELSE LET a == IntOr0(RecGet(Head(recs), k, None))
           b == MaxCol(Tail(recs), k)
       IN IF a >= b THEN a ELSE b
SummedCols == {"goals", "distance", "teamGoals", "periodNumber", "homeTeamControlDuration"}
AllInt(recs, k) == \A n \in 1..Len(recs) : IsInt(RecGet(recs[n], k, None))
DistinctPeriods(recs) ==
  \A m, n \in 1..Len(recs) : m # n => recs[m]["period"] # recs[n]["period"]

\* C1: in summed mode of SkaterGameStats and GoalieGameStats no error is
\* raised and, for a player with several period records, every column other
\* than the identifiers and period that is numeric in a later record holds the
\* sum of the column over all the player's records, a missing value counting
\* as 0.  (The records all carry a period number, so that the period merge
\* is not what raises, and the records of a player are of different periods.)
C1_NumericFieldsSummed ==
  (IsGamesClass /\ summed /\ Acted) =>
    LET by_period == ByPeriod
        recs == Concat(by_period.v)
    IN (/\ by_period.t = "ok"
        /\ AllInt(recs, "period")
        /\ \A pid \in ResolvedIds(recs) : DistinctPeriods(RecordsOf(recs, pid))) =>
         /\ Returned
         /\ \A pid \in ResolvedIds(recs) : \A k \in SummedCols :
              LET mine == RecordsOf(recs, pid)
              IN (\E n \in 2..Len(mine) : IsInt(RecGet(mine[n], k, None)))
                   => RecGet(OutRecord(pid), k, None) = I(SumCol(mine, k))

\* C2: in summed mode the period of a player's record is the highest period
\* number among the player's period records (a non-numeric one counting as 0)
\* and computing it never raises, whatever period the first record has.  (The
\* records all carry goals, so that the sum of a column is not what raises.)
C2_PeriodIsMax ==
  (IsGamesClass /\ summed /\ Acted) =>
    LET by_period == ByPeriod
        recs == Concat(by_period.v)
    IN (by_period.t = "ok" /\ AllInt(recs, "goals")) =>
         /\ Returned
         /\ \A pid \in ResolvedIds(recs) :
              LET mine == RecordsOf(recs, pid)
              IN Len(mine) >= 2 => OutRecord(pid)["period"] = I(MaxCol(mine, "period"))

Ascending(out) ==
  \A m, n \in 1..Len(out) : m < n => IdOf(out[m]).v < IdOf(out[n]).v

\* C3: the by-period output of SkaterGameStats has one bucket per distinct
\* period value among the player entries of the response, the buckets are in
\* ascending order of period number, and the bucket of a period holds exactly
\* one record for every player entry of that period, of either team.
C3_OneBucketPerPeriod ==
  (cls = "SkaterGameStats" /\ ~summed /\ Returned) =>
    LET out == outcome.v
        entries == {RawEntry(pos) : pos \in RawPositions}
        of(p) == {e \in entries : RawPeriodOf(e) = p}
    IN /\ Len(out) = Cardinality({RawPeriodOf(e) : e \in entries})
       /\ \A n \in 1..Len(out) :
            /\ out[n] # <<>>
            /\ Len(out[n]) = Cardinality(of(out[n][1]["period"]))
            /\ \A e \in of(out[n][1]["period"]) :
                 \E m \in 1..Len(out[n]) :
                    /\ out[n][m]["jerseyId"] = RawField(e, "jerseyId")
                    /\ out[n][m]["period"] = RawPeriodOf(e)
       /\ \A m, n \in 1..Len(out) :
            m < n => out[m][1]["period"].v < out[n][1]["period"].v

\* A response whose homeTeam lists the later period first was parsed into two
\* buckets.
C3_Witness ==
  /\ cls = "SkaterGameStats" /\ ~summed /\ Returned
  /\ Len(outcome.v) = 2
  /\ Len(RawTeam(1)) = 2
  /\ Len(RawPlayers(1, 1)) = 1 /\ Len(RawPlayers(1, 2)) = 1
  /\ RawPeriodOf(RawPlayers(1, 1)[1]).v > RawPeriodOf(RawPlayers(1, 2)[1]).v

\* C4: by-period mode of GoalieGameStats, as of SkaterGameStats, gives one
\* record for every player entry of every period entry of both teams, whether
\* or not puckStats has an entry at the period's position.  (The player
\* entries all carry a period number.)
C4_EveryEntryRecorded ==
  (IsGamesClass /\ ~summed /\ Acted
     /\ \A pos \in RawPositions : IsInt(RawPeriodOf(RawEntry(pos)))) =>
    /\ Returned
    /\ Len(Concat(outcome.v)) = Cardinality(RawPositions)

\* C5: no bucket of a by-period output is empty.
C5_NoEmptyBucket ==
  (~summed /\ Returned) => \A n \in 1..Len(outcome.v) : outcome.v[n] # <<>>

\* GameSkaterStats parsed a response in which the period entries of some
\* period number have no player at all, and returned other buckets.
C5_Witness ==
  /\ cls = "GameSkaterStats" /\ ~summed /\ Returned
  /\ outcome.v # <<>>
  /\ \E i \in 1..MaxPeriods :
       /\ \E s \in 1..2 : i <= Len(RawTeam(s))
       /\ \A s \in 1..2 : i <= Len(RawTeam(s)) => RawPlayers(s, i) = <<>>

\* C6: the summed output has exactly one record for each distinct playerId
\* of the by-period records, in ascending order of playerId.
C6_OneRecordPerPlayerAscending ==
  (summed /\ Returned) =>
    LET recs == Concat(ByPeriod.v)
        out == outcome.v
    IN /\ {IdOf(r) : r \in Range(out)} = ResolvedIds(recs)
       /\ Len(out) = Cardinality(ResolvedIds(recs))
       /\ Ascending(out)

C8_SingleBucketIdentical ==
  (IsGamesClass /\ summed /\ Returned) =>
    LET by_period == ByPeriod
        bucket == by_period.v[1]
    IN (/\ Len(by_period.v) = 1
        /\ \A n \in 1..Len(bucket) : IdOf(bucket[n]) # None
        /\ \A m, n \in 1..Len(bucket) : m # n => IdOf(bucket[m]) # IdOf(bucket[n])) =>
         outcome.v = bucket

\* C8 as amended: when the by-period output is one bucket whose records all
\* have a playerId, each a different one, the summed output consists of
\* exactly that bucket's records, unchanged, in ascending order of playerId.
C8_SingleBucketSameRecordsById ==
  (IsGamesClass /\ summed /\ Acted) =>
    LET by_period == ByPeriod
        bucket == by_period.v[1]
    IN (/\ by_period.t = "ok"
        /\ Len(by_period.v) = 1
        /\ \A n \in 1..Len(bucket) : IdOf(bucket[n]) # None
        /\ \A m, n \in 1..Len(bucket) : m # n => IdOf(bucket[m]) # IdOf(bucket[n])) =>
         /\ Returned
         /\ Len(outcome.v) = Len(bucket)
         /\ Range(outcome.v) = Range(bucket)
         /\ Ascending(outcome.v)

\* A single bucket of two players, the one with the higher id first, was
\* summed.
C8_Witness ==
  /\ IsGamesClass /\ summed /\ Returned
  /\ Len(ByPeriod.v) = 1
  /\ Len(ByPeriod.v[1]) = 2
  /\ IsInt(IdOf(ByPeriod.v[1][1])) /\ IsInt(IdOf(ByPeriod.v[1][2]))
  /\ IdOf(ByPeriod.v[1][1]).v > IdOf(ByPeriod.v[1][2]).v

\* The response with the period entries of homeTeam in the opposite order.
RECURSIVE Reverse(_)
Reverse(q) == IF q = <<>> THEN <<>> ELSE Append(Reverse(Tail(q)), Head(q))
SwapHome(resp) ==
  D([n \in 1..Len(resp.v) |->
       IF resp.v[n][1] = "homeTeam"
       THEN <<"homeTeam", L(Reverse(resp.v[n][2].v))>>
       ELSE resp.v[n]])

\* C9: for a player with two period records, in the two period entries of
\* homeTeam, whose period and goals are numeric, the summed record of
\* SkaterGameStats is the same whichever period entry comes first: every
\* summed column has the same value and period is the higher of the two.
C9_EntryOrderIrrelevant ==
  (cls = "SkaterGameStats" /\ summed /\ Returned
     /\ Len(RawTeam(1)) = 2 /\ Len(RawTeam(2)) = 0
     /\ Len(RawPlayers(1, 1)) = 1 /\ Len(RawPlayers(1, 2)) = 1) =>
    LET p1 == RawPlayers(1, 1)[1]
        p2 == RawPlayers(1, 2)[1]
        swapped == Skater_parse_sum_players(SwapHome(raw))
    IN (/\ RawField(p1, "playerId") = RawField(p2, "playerId")
        /\ IsInt(RawField(p1, "playerId"))
        /\ IsInt(RawPeriodOf(p1)) /\ IsInt(RawPeriodOf(p2))
        /\ IsInt(RawField(Lookup(p1, "period"), "goals"))
        /\ IsInt(RawField(Lookup(p2, "period"), "goals"))) =>
         /\ swapped.t = "ok"
         /\ Len(outcome.v) = 1 /\ Len(swapped.v) = 1
         /\ \A k \in SummedCols \cup {"period"} :
              RecGet(outcome.v[1], k, None) = RecGet(swapped.v[1], k, None)
         /\ outcome.v[1]["period"] =
              IF RawPeriodOf(p1).v >= RawPeriodOf(p2).v THEN RawPeriodOf(p1) ELSE RawPeriodOf(p2)

\* C10: in the summed record of a player the columns playerId, jerseyId and
\* teamId are present and hold the values of the first of the player's
\* by-period records.
C10_IdentityFromFirstRecord ==
  (IsGamesClass /\ summed /\ Returned) =>
    LET recs == Concat(ByPeriod.v)
    IN \A pid \in ResolvedIds(recs) :
         LET first == RecordsOf(recs, pid)[1]
             out == OutRecord(pid)
         IN /\ {"playerId", "jerseyId", "teamId"} \subseteq DOMAIN out
            /\ \A k \in {"playerId", "jerseyId", "teamId"} : out[k] = first[k]

\* A player with records of both teams, so with two jersey and two team ids,
\* was summed.
C10_Witness ==
  /\ IsGamesClass /\ summed /\ Returned
  /\ \E pid \in ResolvedIds(Concat(ByPeriod.v)) :
       LET mine == RecordsOf(Concat(ByPeriod.v), pid)
       IN /\ Len(mine) = 2
          /\ mine[1]["jerseyId"] # mine[2]["jerseyId"]
          /\ mine[1]["teamId"] # mine[2]["teamId"]

\* C11: when a later record of a player is merged into the running total (a
\* player with two by-period records, the second one merged into the copy of
\* the first), a column other than the identifiers and period whose incoming
\* value is neither numeric nor null holds the incoming value afterwards, and
\* a column whose incoming value is null keeps the running value.
C11_LaterRecordMerged ==
  (summed /\ Returned) =>
    LET recs == Concat(ByPeriod.v)
    IN \A pid \in ResolvedIds(recs) :
         LET mine == RecordsOf(recs, pid)
             out == OutRecord(pid)
         IN Len(mine) = 2 =>
              \A k \in DOMAIN mine[2] \ {"playerId", "jerseyId", "teamId", "period"} :
                 /\ (~IsInt(mine[2][k]) /\ mine[2][k] # None) => RecGet(out, k, None) = mine[2][k]
                 /\ mine[2][k] = None => RecGet(out, k, None) = RecGet(mine[1], k, None)

\* C12: _get_nested(r, "a.b") returns None when r has no "a", when r["a"] is
\* not a dict and when r["a"] has no "b", and in every other case returns
\* r["a"]["b"] itself, a falsy value included.
C12_GetNestedAB ==
  (cls = "_get_nested" /\ args.path = <<"a", "b">> /\ Acted) =>
    outcome = Ok(IF ~HasKey(raw, "a") THEN None
                 ELSE IF ~IsDict(Lookup(raw, "a")) THEN None
                 ELSE IF ~HasKey(Lookup(raw, "a"), "b") THEN None
                 ELSE Lookup(Lookup(raw, "a"), "b"))

\* The value found at a.b is False, and it was returned.
C12_Witness ==
  /\ cls = "_get_nested" /\ args.path = <<"a", "b">>
  /\ HasKey(raw, "a") /\ IsDict(Lookup(raw, "a")) /\ HasKey(Lookup(raw, "a"), "b")
  /\ Lookup(Lookup(raw, "a"), "b") = B(FALSE)
  /\ outcome = Ok(B(FALSE))

\* C13: the record _parse_record returns has exactly the output columns of
\* the spec as its keys, whichever source paths the record has, and each
\* column holds what _get_nested returns for its source path.
C13_ParseRecordKeys ==
  (cls = "_parse_record" /\ Acted) =>
    /\ outcome.t = "ok"
    /\ DOMAIN outcome.v = {args.columns[i][2] : i \in 1..Len(args.columns)}
    /\ \A i \in 1..Len(args.columns) :
         outcome.v[args.columns[i][2]] = _get_nested(raw, args.columns[i][1])

\* A spec of three columns was parsed out of a record that has the source of
\* one of them only.
C13_Witness ==
  /\ cls = "_parse_record" /\ Acted
  /\ Len(args.columns) = 3
  /\ outcome.v["c"] # None
  /\ outcome.v["x"] = None /\ outcome.v["y"] = None

\* The leaves of a nested dict: the <<path, value>> pairs of its values that
\* are not dicts, path being the keys from the top down to the value.
RECURSIVE Leaves(_, _)
Leaves(d, prefix) ==
  UNION {IF IsDict(d.v[n][2]) THEN Leaves(d.v[n][2], Append(prefix, d.v[n][1]))
         ELSE {<<Append(prefix, d.v[n][1]), d.v[n][2]>>} : n \in 1..Len(d.v)}
\* The segments of a path joined with the separator.
RECURSIVE JoinPath(_)
JoinPath(path) ==
  IF Len(path) = 1 THEN path[1] ELSE path[1] \o "_" \o JoinPath(Tail(path))
\* The <<key, value>> items the loops of flatten_dict come to: those of d and
\* those of every dict it recurses into.
RECURSIVE Visited(_, _)
Visited(d, skip_keys) ==
  UNION {{<<d.v[n][1], d.v[n][2]>>}
           \cup IF d.v[n][1] \notin skip_keys /\ IsDict(d.v[n][2])
                THEN Visited(d.v[n][2], skip_keys) ELSE {} : n \in 1..Len(d.v)}

\* C14: flatten_dict (no skip_keys) puts every leaf of d under the key made
\* of the keys of its path joined with "_": a top-level leaf under its own
\* key, the leaf b of {a: {b: 1}} under a_b.
C14_KeysArePaths ==
  (cls = "flatten_dict" /\ args.skip_keys = {} /\ Acted) =>
    \A leaf \in Leaves(raw, <<>>) :
       /\ JoinPath(leaf[1]) \in DOMAIN outcome.v
       /\ outcome.v[JoinPath(leaf[1])] = leaf[2]

\* C15: flatten_dict (no skip_keys) returns, and its output has as many
\* entries as d has leaves, the value of every leaf among them.
C15_EveryLeafOnce ==
  (cls = "flatten_dict" /\ args.skip_keys = {} /\ Acted) =>
    /\ outcome.t = "ok"
    /\ Cardinality(DOMAIN outcome.v) = Cardinality(Leaves(raw, <<>>))
    /\ \A leaf \in Leaves(raw, <<>>) : \E k \in DOMAIN outcome.v : outcome.v[k] = leaf[2]

\* C16: the output of flatten_dict holds, under its own key, the unchanged
\* value of every key of skip_keys and of every key whose value is a list,
\* at whatever depth the key is met.
C16_SkippedAndListsCopied ==
  (cls = "flatten_dict" /\ Acted) =>
    \A it \in Visited(raw, args.skip_keys) :
       (it[1] \in args.skip_keys \/ it[2].t = "list") =>
          /\ it[1] \in DOMAIN outcome.v
          /\ outcome.v[it[1]] = it[2]

NoColon(chars) == \A i \in 1..Len(chars) : chars[i] # ":"
\* The characters of chars before its first colon.
BeforeColon(chars) ==
  SubSeq(chars, 1, IF NoColon(chars) THEN Len(chars)
                   ELSE (CHOOSE i \in 1..Len(chars) :
                           chars[i] = ":" /\ \A j \in 1..(i - 1) : chars[j] # ":") - 1)
\* The team ids of the period entries of a games/stats response.
RawTeamIds(resp) ==
  {Lookup(e, "teamId") : e \in UNION {Range(it[2].v) : it \in
                             {x \in Range(resp.v) : x[1] \in {"homeTeam", "awayTeam"}}}}

\* C17: in every record SkaterGameStats and GoalieGameStats (by period and
\* summed), GamesResults and GameInfo return, a team id column holds the part
\* of the response's team id before the colon, and so no colon.
C17_NoCompositeTeamId ==
  (Parsed /\ Returned) =>
    /\ (cls \in {"SkaterGameStats", "GoalieGameStats"}) =>
         \A r \in Range(IF summed THEN outcome.v ELSE Concat(outcome.v)) :
            /\ NoColon(r["teamId"].v)
            /\ \E id \in RawTeamIds(raw) : r["teamId"] = S(BeforeColon(id.v))
    /\ cls = "GamesResults" =>
         \A n \in 1..Len(outcome.v) : \A side \in {"home", "away"} :
            /\ NoColon(outcome.v[n][side \o "TeamId"].v)
            /\ outcome.v[n][side \o "TeamId"].v =
                 BeforeColon(Lookup(Lookup(raw.v[n], side \o "Team"), "teamId").v)
    /\ cls = "GameInfo" =>
         \A side \in {"home", "away"} :
            /\ NoColon(outcome.v[side \o "TeamId"].v)
            /\ outcome.v[side \o "TeamId"].v =
                 BeforeColon(Lookup(Lookup(Lookup(raw, "game"), side \o "Team"), "teamId").v)

\* GamesResults returned the record of a game whose home team id is
\* composite and whose away team id has two colons.
C17_Witness ==
  /\ cls = "GamesResults" /\ Parsed /\ Returned
  /\ Len(outcome.v) = 1
  /\ Lookup(Lookup(raw.v[1], "homeTeam"), "teamId") = S(<<"1", ":", "A">>)
  /\ Lookup(Lookup(raw.v[1], "awayTeam"), "teamId") = S(<<"3", ":", "C", ":", "D">>)
  /\ outcome.v[1]["homeTeamId"] = S(<<"1">>)

\* C18: when the response of SkaterGameStats or GoalieGameStats is not a
\* dict, get_dict() raises LiigaAPIError, by period and summed.
C18_NonMappingIsLiigaAPIError ==
  (cls \in {"SkaterGameStats", "GoalieGameStats"} /\ Parsed /\ ~IsDict(raw)) =>
    outcome = Raise("LiigaAPIError")

\* The options the class of the object knows.
Recognized(c, a) ==
  /\ c \in StatClasses => a.summed.t = "bool"
  /\ c = "GamesResults" => a.gametype \in DOMAIN GamesResults_GAMETYPE_OPTIONS
  /\ c = "PlayerGameLog" => a.gametype \in DOMAIN PlayerGameLog_GAMETYPE_OPTIONS
  /\ c = "PlayersBasicStats" => a.gametype \in DOMAIN PlayersBasicStats_GAMETYPE_OPTIONS
  /\ c = "PlayerStatsPerSeason" =>
       a.gametype \in DOMAIN PlayerStatsPerSeason_GAMETYPE_OPTIONS

\* C19: an object constructed with a gametype or a summed value its class
\* does not know never fetches: whenever the response is fetched, or data
\* parsed, the options are recognized ones.
C19_NoFetchWithUnknownOption ==
  (response # NotCached \/ data # NotCached \/ Parsed) => Recognized(cls, args)

\* The top-level keys the parse of a class reads.
TopLevelKeys(c) ==
  IF c \in StatClasses THEN {"homeTeam", "awayTeam"}
  ELSE IF c = "PlayerStatsPerSeason" THEN {"historical"}
  ELSE IF c = "PlayerTeamsPlayedFor" THEN {"teams"}
  ELSE IF c = "GameInfo" THEN {"game"}
  ELSE {}

\* C20: when the response is a dict without a top-level key the parse of the
\* class reads, get_dict() raises; it returns no result.
C20_MissingKeyRaises ==
  (Parsed /\ IsDict(raw) /\ \E k \in TopLevelKeys(cls) : ~HasKey(raw, k)) =>
    outcome.t = "raise"

\* The output PlayersBasicStats is to give for the entries from n on.
RECURSIVE ExpectedPlayers(_, _)
ExpectedPlayers(entries, n) ==
  IF n > Len(entries) THEN <<>>
  ELSE LET pt == RawField(entries[n], "previousTeamsForTournament")
       IN (IF pt.t = "list" /\ Len(pt.v) > 0 THEN pt.v ELSE <<entries[n]>>)
            \o ExpectedPlayers(entries, n + 1)

\* C28: PlayersBasicStats not summed returns, for each entry of the response
\* in order, the entries of its previousTeamsForTournament list when that
\* list is not empty and the entry itself otherwise; summed it returns the
\* entries of the response as they are, in order.
C28_PreviousTeamsReplaceEntry ==
  (cls = "PlayersBasicStats" /\ Parsed) =>
    /\ Returned
    /\ outcome.v = IF summed THEN raw.v ELSE ExpectedPlayers(raw.v, 1)

\* Not summed, the first entry has an empty list and is kept, the second has
\* two previous teams and is replaced by them.
C28_Witness ==
  /\ cls = "PlayersBasicStats" /\ Parsed /\ Returned /\ ~summed
  /\ Len(raw.v) = 2
  /\ RawField(raw.v[1], "previousTeamsForTournament") = L(<<>>)
  /\ RawField(raw.v[2], "previousTeamsForTournament").t = "list"
  /\ Len(outcome.v) = 3
  /\ outcome.v[1] = raw.v[1]
  /\ outcome.v[3] = PreviousTeamEntry(2, "2")

\* C21: GamesResults and GameInfo parse a game in which a field of the
\* column spec is missing, the team id included, without raising, and the
\* column of a missing team id is null.
C21_MissingFieldIsNull ==
  /\ (cls = "GamesResults" /\ Parsed) =>
       /\ Returned
       /\ \A n \in 1..Len(raw.v) : \A side \in {"home", "away"} :
             ~HasKey(Lookup(raw.v[n], side \o "Team"), "teamId") =>
                outcome.v[n][side \o "TeamId"] = None
  /\ (cls = "GameInfo" /\ Parsed /\ IsDict(raw) /\ HasKey(raw, "game")) =>
       /\ Returned
       /\ \A side \in {"home", "away"} :
             ~HasKey(Lookup(Lookup(raw, "game"), side \o "Team"), "teamId") =>
                outcome.v[side \o "TeamId"] = None

\* The number of games in the lists before item i of a game-log response.
RECURSIVE GamesBefore(_, _)
GamesBefore(items, i) ==
  IF i <= 1 THEN 0 ELSE GamesBefore(items, i - 1) + Len(items[i - 1][2].v)

\* C27: PlayerGameLog with a specific gametype returns the list the response
\* holds under the translated key and raises LiigaAPIError when the response
\* has no such key; with gametype "all" game j of the list of item i of the
\* response is at place j after the games of the items before i, and the
\* output has no other game.
C27_GameLogByGametype ==
  (cls = "PlayerGameLog" /\ Parsed) =>
    LET key == PlayerGameLog_GAMETYPE_OPTIONS[args.gametype]
    IN IF key # ""
       THEN IF HasKey(raw, key) THEN outcome = Ok(Lookup(raw, key))
            ELSE outcome = Raise("LiigaAPIError")
       ELSE /\ Returned
            /\ Len(outcome.v) = GamesBefore(raw.v, Len(raw.v) + 1)
            /\ \A i \in 1..Len(raw.v) : \A j \in 1..Len(raw.v[i][2].v) :
                  outcome.v[GamesBefore(raw.v, i) + j] = raw.v[i][2].v[j]

\* PlayerGameLog with gametype "playoff" on a response that has regular
\* games only raised LiigaAPIError.
C27_Witness ==
  /\ cls = "PlayerGameLog" /\ Parsed
  /\ args.gametype = "playoff"
  /\ HasKey(raw, "regular") /\ ~HasKey(raw, "playoffs")
  /\ outcome = Raise("LiigaAPIError")

\* The raw player entry with the jerseyId of the record r.
EntryOf(r) == RawEntry(CHOOSE pos \in RawPositions :
                         RawField(RawEntry(pos), "jerseyId") = r["jerseyId"])

\* C29: in every by-period record of SkaterGameStats and GoalieGameStats the
\* distance column holds the distance of the player's own entry.
C29_PlayerColumnsKept ==
  (IsGamesClass /\ ~summed /\ Parsed /\ Returned) =>
    \A r \in Range(Concat(outcome.v)) :
       r["distance"] = RawField(EntryOf(r), "distance")

\* C30: in every by-period record of SkaterGameStats and GoalieGameStats
\* that carries puck-possession fields, periodNumber is the period of the
\* record.
C30_PuckOfOwnPeriod ==
  (IsGamesClass /\ ~summed /\ Parsed /\ Returned) =>
    \A r \in Range(Concat(outcome.v)) :
       ("periodNumber" \in DOMAIN r /\ r["periodNumber"] # None) =>
          r["periodNumber"] = r["period"]

\* C22: for every class but GamesSimpleResults, get_response() called when
\* the data has been parsed returns the response as it was fetched.
C22_ParseLeavesResponse ==
  (cls # "GamesSimpleResults" /\ call = "get_response" /\ Returned
     /\ data # NotCached) =>
    outcome.v = raw

\* The number of events e in the log.
Count(events, e) == Cardinality({n \in 1..Len(events) : events[n] = e})

\* C23 as stated: since the last invalidation at most one request was
\* answered and the parse ran at most once, whether it returned or raised.
C23_AtMostOneFetchAndParse ==
  /\ Count(log, "fetch") <= 1
  /\ Count(log, "parse") + Count(log, "parse_failed") <= 1

\* C23: since the last invalidation at most one request was answered and at
\* most one parse returned; the response is cached exactly when a request
\* was answered and the data exactly when a parse returned, so a call made
\* after that is served from the cache.  (A parse that raises stores nothing
\* and runs again on the next call.)
C23_AtMostOneFetchAndSuccessfulParse ==
  /\ Count(log, "fetch") <= 1
  /\ Count(log, "parse") <= 1
  /\ response # NotCached <=> Count(log, "fetch") = 1
  /\ data # NotCached <=> Count(log, "parse") = 1

\* get_response() returned the cached response after an earlier call had
\* fetched and parsed: the log holds one request and one parse.
C23_Witness ==
  /\ call = "get_response" /\ Returned
  /\ log = <<"fetch", "parse">>
  /\ response # NotCached /\ data # NotCached

\* C24: when the data is dropped and computed again on the cached response,
\* the parse returns what the first run returned.
C24_ReparseGivesSameRecords ==
  [][(call' = "recompute" /\ data # NotCached) =>
        /\ outcome'.t = "ok"
        /\ outcome'.v = data.v]_vars

\* C25: clear_cache() returns None in every state, and leaves neither the
\* response nor the data cached.
C25_ClearCacheAnywhere ==
  call = "clear_cache" =>
    /\ outcome = Ok(None)
    /\ response = NotCached
    /\ data = NotCached

AccessCalls == {"get_dict", "get_json", "get_data_frame", "get_response"}

\* C26: an access that has to fetch while the server fails ends in
\* LiigaAPIError and leaves the response and the data uncached; the access
\* after a failed request makes a request again.
C26_FailedFetchNotCached ==
  [][/\ (raw = Failure /\ raw' = raw /\ response = NotCached /\ call' \in AccessCalls) =>
          /\ outcome' = Raise("LiigaAPIError")
          /\ response' = NotCached
          /\ data' = NotCached
          /\ log' = Append(log, "fetch_failed")
     /\ (log # <<>> /\ log[Len(log)] = "fetch_failed" /\ raw' = raw
           /\ call' \in AccessCalls) =>
          /\ Len(log') > Len(log)
          /\ log'[Len(log) + 1] \in {"fetch", "fetch_failed"}]_vars

\* A request failed, the server recovered, and the next access fetched and
\* parsed.
C26_Witness ==
  /\ log = <<"fetch_failed", "fetch", "parse">>
  /\ call \in AccessCalls /\ Returned
  /\ response = Cached(raw) /\ data # NotCached

====
